---- MODULE Spec2Model ----
(***************************************************************************)
(* A model of the forwarding proxy of src/proxy/server.py: the access      *)
(* tables, the accept loop, the per-connection thread and the relay loop.  *)
(* Byte strings are sequences of byte tokens (strings); b"" is << >>.      *)
(***************************************************************************)
EXTENDS FiniteSets, Integers, Naturals, Sequences, TLC

(***************************************************************************)
(* Bounds of the model.                                                    *)
(***************************************************************************)
\* Width in bits of a model address (IPv4 has 32; the relations between
\* networks that the code uses only depend on prefixes).
AddrBits == 2
\* Longest access list given to the constructor.
MaxRules == 2
\* Most bytes one endpoint sends while its connection is relayed, when
\* the thread or the relay is run alone.
MaxSend == 2
\* The same, when the whole server is run.
ServerSend == 1

(***************************************************************************)
(* Program constants (ProxyServer.__init__).                               *)
(***************************************************************************)
default_socket_timeout == 1
dest_connection_timeout == 1
\* 4 // self.__dest_connection_timeout // 2, Python's floor division,
\* left associative.
max_pipe_timeout == (4 \div dest_connection_timeout) \div 2

(***************************************************************************)
(* Small helpers.                                                          *)
(***************************************************************************)
RECURSIVE Pow2(_)
Pow2(n) == IF n = 0 THEN 1 ELSE 2 * Pow2(n - 1)

IsPrefix(s, t) == Len(s) <= Len(t) /\ SubSeq(t, 1, Len(s)) = s

\* Sequences over S of length at most n.
SeqsUpTo(S, n) == UNION { [1..k -> S] : k \in 0..n }

(***************************************************************************)
(* Access tables.                                                          *)
(*                                                                         *)
(* A network is [ver, addr, plen]: IP version, network address and prefix  *)
(* length, as ipaddress.ip_network builds it.  str(port) is modelled by    *)
(* its decimal digits.                                                     *)
(***************************************************************************)
Addrs == 0..(Pow2(AddrBits) - 1)
PrefixLens == 0..AddrBits

Digits == <<"0", "1", "2", "3", "4", "5", "6", "7", "8", "9">>

\* Python's str() of a non-negative int: its decimal digits.
RECURSIVE str(_)
str(n) == IF n < 10 THEN <<Digits[n + 1]>>
          ELSE str(n \div 10) \o <<Digits[(n % 10) + 1]>>

\* A port specifier of an access list: an int, or the string "*".
\* str(port) of line 206 leaves a string as it is.
PortSpecStr(p) == IF p.kind = "int" THEN str(p.n) ELSE p.s

Star == <<"*">>

\* network_address .. broadcast_address of a network.
network_address(net) == net.addr
broadcast_address(net) == net.addr + Pow2(AddrBits - net.plen) - 1

\* ipaddress.ip_network(spec), strict: a spec with host bits set is a
\* ValueError.
HasHostBits(spec) == spec.addr % Pow2(AddrBits - spec.plen) # 0
ip_network(spec) == [ver |-> spec.ver, addr |-> spec.addr, plen |-> spec.plen]

\* The one-address network ip_network(host) of a client host; the
\* listening socket is AF_INET, so the host is an IPv4 address.
HostNetwork(host) == [ver |-> 4, addr |-> host, plen |-> AddrBits]

\* a.supernet_of(b): "TypeError" when the versions differ
\* (ipaddress._BaseNetwork._is_subnet_of), else the containment test.
supernet_of(a, b) ==
    IF a.ver # b.ver THEN "TypeError"
    ELSE IF network_address(a) <= network_address(b)
            /\ broadcast_address(a) >= broadcast_address(b)
         THEN "True" ELSE "False"

\* Index of the entry of table acc whose network is net, 0 if none.
EntryIndex(acc, net) ==
    IF \E i \in 1..Len(acc) : acc[i].net = net
    THEN CHOOSE i \in 1..Len(acc) : acc[i].net = net
    ELSE 0

\* accesses[ipaddress.ip_network(ip_adr)].append(str(port)) on the
\* insertion-ordered defaultdict(list).
TableAppend(acc, net, portstr) ==
    LET i == EntryIndex(acc, net)
    IN  IF i = 0
        THEN Append(acc, [net |-> net, ports |-> <<portstr>>])
        ELSE [acc EXCEPT ![i].ports = Append(@, portstr)]

\* __get_init_access_table: the table, a sequence of [net, ports] in
\* insertion order; ok is FALSE when ip_network refuses a network spec
\* (ValueError).
RECURSIVE InitAccessFrom(_, _, _)
InitAccessFrom(access_list, k, acc) ==
    IF k > Len(access_list) THEN [ok |-> TRUE, table |-> acc]
    ELSE IF HasHostBits(access_list[k].net) THEN [ok |-> FALSE, table |-> << >>]
    ELSE InitAccessFrom(access_list, k + 1,
             TableAppend(acc, ip_network(access_list[k].net),
                         PortSpecStr(access_list[k].port)))

get_init_access_table(access_list) == InitAccessFrom(access_list, 1, << >>)

\* The (network, port) pairs of a table in the order the two nested for
\* loops of is_testee_in_access_table visit them.
RECURSIVE TablePairs(_)
TablePairs(accesses) ==
    IF accesses = << >> THEN << >>
    ELSE LET e == Head(accesses)
         IN  [j \in 1..Len(e.ports) |-> [net |-> e.net, port |-> e.ports[j]]]
             \o TablePairs(Tail(accesses))

\* The condition of line 219 for one pair: supernet_of is evaluated first
\* and may raise; the port test follows only when it returned True.
PairMatch(pair, tested_ip_address, port) ==
    LET sup == supernet_of(pair.net, tested_ip_address)
    IN  IF sup = "TypeError" THEN "TypeError"
        ELSE IF sup = "True" /\ (pair.port = Star \/ str(port) = pair.port)
             THEN "True" ELSE "False"

RECURSIVE ScanPairs(_, _, _)
ScanPairs(pairs, tested_ip_address, port) ==
    IF pairs = << >> THEN "False"
    ELSE LET m == PairMatch(Head(pairs), tested_ip_address, port)
         IN  IF m = "False" THEN ScanPairs(Tail(pairs), tested_ip_address, port)
             ELSE m

\* is_testee_in_access_table: "True", "False", or "TypeError" when the
\* scan reaches a rule of the other IP version before any match.
is_testee_in_access_table(accesses, host, port) ==
    ScanPairs(TablePairs(accesses), HostNetwork(host), port)

(***************************************************************************)
(* Requests and destination resolution.                                    *)
(*                                                                         *)
(* The first request is a sequence of tokens: the method, the tokens of    *)
(* the request-target, and the rest of the request as one token.           *)
(***************************************************************************)
Ack == <<"HTTP/1.1 200 Connection established", "\r\n\r\n">>

Requests ==
    { <<"CONNECT", "example.com", ":", "443", " HTTP/1.1\r\n\r\n">>,
      <<"GET", "http", "://", "example.com", "/path", " HTTP/1.1\r\n\r\n">>,
      <<"GET", "https", "://", "example.com", "/path", " HTTP/1.1\r\n\r\n">>,
      <<"POST", "http", "://", "example.com", ":", "8080", " HTTP/1.1\r\n\r\n">>,
      <<"GET", "example.com", ":", "80", " HTTP/1.1\r\n\r\n">>,
      <<"GET", "ftp", "://", "example.com", "/path", " HTTP/1.1\r\n\r\n">>,
      <<"GET", "example.com", " HTTP/1.1\r\n\r\n">>,
      <<"garbage">> }

\* proxy.http.http_request_parse: the method and the request-target of
\* the request line; ok is FALSE when there is no request line to parse.
http_request_parse(request) ==
    IF Len(request) < 3
    THEN [ok |-> FALSE, method |-> "", request_target |-> << >>]
    ELSE [ok |-> TRUE, method |-> request[1],
          request_target |-> SubSeq(request, 2, Len(request) - 1)]

PortTokens == {"80", "443", "4430", "8080"}

PortNumber(tok) ==
    CASE tok = "80" -> 80
      [] tok = "443" -> 443
      [] tok = "4430" -> 4430
      [] tok = "8080" -> 8080

\* ":443" in dest_url: a colon followed by text that starts with 443.
Has443(url) ==
    \E i \in 1..(Len(url) - 1) : url[i] = ":" /\ url[i + 1] \in {"443", "4430"}

HasSchemeDelim(url) == \E i \in 1..Len(url) : url[i] = "://"

\* urllib.parse.urlparse, as far as scheme, hostname and port go.  An
\* absent value (None) is << >>, a present one a one-element sequence.
\* Without "//" there is no netloc: "example.com:80" parses to scheme
\* example.com and path 80.
urlparse(url) ==
    IF Len(url) >= 3 /\ url[2] = "://"
    THEN [scheme   |-> url[1],
          hostname |-> <<url[3]>>,
          port     |-> IF Len(url) >= 5 /\ url[4] = ":" /\ url[5] \in PortTokens
                       THEN <<PortNumber(url[5])>> ELSE << >>]
    ELSE [scheme   |-> IF Len(url) >= 2 /\ url[2] = ":" THEN url[1] ELSE "",
          hostname |-> << >>,
          port     |-> << >>]

\* A resolver that defaults the port to 80 whatever the scheme.
parse_dest_url_Always80(dest_url) ==
    LET url == IF ~HasSchemeDelim(dest_url) /\ Has443(dest_url)
               THEN <<"https", "://">> \o dest_url ELSE dest_url
        uri == urlparse(url)
        port == IF uri.port = << >> THEN <<80>> ELSE uri.port
    IN  [host |-> uri.hostname, port |-> port]

\* _parse_dest_url: (host, port).
parse_dest_url(dest_url) ==
    LET url == IF ~HasSchemeDelim(dest_url) /\ Has443(dest_url)
               THEN <<"https", "://">> \o dest_url ELSE dest_url
        uri == urlparse(url)
        port == IF uri.port = << >> /\ uri.scheme = "http"
                THEN <<80>> ELSE uri.port
    IN  [host |-> uri.hostname, port |-> port]

(***************************************************************************)
(* State.                                                                  *)
(***************************************************************************)
\* The record of a connection: pc is where its thread is ("free" before
\* the accept, "blocked", "not_allowed" and "dropped" when no thread was
\* started, "raised" when an exception left the thread, "killed" when the
\* process ended under it), src and dest are the two sockets, src_out and
\* dest_out what was written to them, s_n and d_n how many bytes of the
\* two endpoints the relay has read, connects the calls of connect.
VARIABLES
    srv,               \* "new", "listening", "config_error", "raised",
                       \* "exited": the server object and its accept loop
    allowed_list,      \* constructor argument allowed_accesses
    blocked_list,      \* constructor argument blocked_accesses
    listen_flag,       \* self.__listen_flag
    enable_allowed,    \* self.__enable_allowed_access
    enable_blocked,    \* self.__enable_blocked_access
    allowed_accesses,  \* self.allowed_accesses
    blocked_accesses,  \* self.blocked_accesses
    conn,              \* the connection accepted by the accept loop
    sib,               \* a sibling connection, whose thread runs beside
                       \* the thread of conn
    test,              \* the last direct call of is_testee_in_access_table
    send_budget        \* how many bytes each endpoint sends at most while
                       \* the connection is relayed

vars == <<srv, allowed_list, blocked_list, listen_flag, enable_allowed,
          enable_blocked, allowed_accesses, blocked_accesses, conn, sib,
          test, send_budget>>

config == <<allowed_list, blocked_list, listen_flag, enable_allowed,
            enable_blocked, allowed_accesses, blocked_accesses, send_budget>>

\* The bytes the client sends after its first request, and the bytes the
\* destination sends: fixed streams of distinct bytes, so that a byte
\* lost, repeated or moved shows.
ClientBytes == <<"c1", "c2", "c3", "c4">>
DestBytes == <<"d1", "d2", "d3", "d4">>

ClientPorts == {1, 2}

NoConn ==
    [pc |-> "free", host |-> 0, port |-> 1,
     src |-> "none", dest |-> "none",
     request |-> << >>, tunnel |-> FALSE,
     dest_domain |-> << >>, dest_port |-> << >>,
     src_out |-> << >>, dest_out |-> << >>,
     s_n |-> 0, d_n |-> 0, s_leg |-> "live", d_leg |-> "live",
     count |-> 0, response_data |-> << >>,
     iter |-> "none", idle_windows |-> 0,
     connects |-> 0]

(***************************************************************************)
(* Construction (ProxyServer.__init__).                                    *)
(***************************************************************************)
V4Networks == { [ver |-> 4, addr |-> a, plen |-> l] : a \in Addrs, l \in PrefixLens }
\* One IPv6 network is enough to meet a rule of the other version.
V6Networks == { [ver |-> 6, addr |-> 0, plen |-> 0] }
NetworkSpecs == { n \in V4Networks \cup V6Networks : ~HasHostBits(n) }

PortSpecs == { [kind |-> "str", s |-> Star, n |-> 0],
               [kind |-> "int", s |-> << >>, n |-> 1] }

RuleSpecs == { [net |-> n, port |-> p] : n \in NetworkSpecs, p \in PortSpecs }

\* Every access list of at most MaxRules rules.
AccessLists == SeqsUpTo(RuleSpecs, MaxRules)

Net(v, a, l) == [ver |-> v, addr |-> a, plen |-> l]
Rule(n, p) == [net |-> n, port |-> p]
StarPort == [kind |-> "str", s |-> Star, n |-> 0]
IntPort(k) == [kind |-> "int", s |-> << >>, n |-> k]

\* Access lists the server is run with: the lower half of the addresses
\* with every port, one address with one port, and a list that mixes IP
\* versions.
HalfList == <<Rule(Net(4, 0, 1), StarPort)>>
HostList == <<Rule(Net(4, 1, AddrBits), IntPort(1))>>
MixedList == <<Rule(Net(6, 0, 0), StarPort), Rule(Net(4, 0, 0), StarPort)>>

\* The (allowed_accesses, blocked_accesses) arguments the server is run
\* with.
ServerConfigs ==
    { << << >>, << >> >>,
      <<HalfList, << >> >>,
      << << >>, HalfList>>,
      <<HalfList, HalfList>>,
      <<HalfList, HostList>>,
      <<HostList, HalfList>>,
      <<MixedList, << >> >>,
      << << >>, MixedList>> }

\* A network spec ip_network refuses (host bits set, as in 10.0.0.1/8),
\* and a port spec that is neither an int nor "*".
BadNet == Net(4, 1, 1)
BadPort == [kind |-> "str", s |-> <<"http">>, n |-> 0]

\* Access lists of well-formed and malformed rules.
ConstructRules ==
    { Rule(Net(4, 0, 1), StarPort),
      Rule(Net(4, 1, AddrBits), IntPort(1)),
      Rule(BadNet, StarPort),
      Rule(Net(4, 0, 1), BadPort) }

ConstructLists == SeqsUpTo(ConstructRules, MaxRules)

\* __init__ up to the listening socket: the flags of lines 29-31 and the
\* tables of lines 33-39.
Construct ==
    /\ srv = "new"
    /\ LET ea == allowed_list # << >>
           eb == blocked_list # << >>
           none == [ok |-> TRUE, table |-> << >>]
           ta == IF ea THEN get_init_access_table(allowed_list) ELSE none
           tb == IF eb THEN get_init_access_table(blocked_list) ELSE none
       IN  /\ listen_flag' = TRUE
           /\ enable_allowed' = ea
           /\ enable_blocked' = eb
           /\ IF ~ta.ok \/ ~tb.ok
              THEN /\ srv' = "config_error"
                   /\ UNCHANGED <<allowed_accesses, blocked_accesses>>
              ELSE /\ srv' = "listening"
                   /\ allowed_accesses' = ta.table
                   /\ blocked_accesses' = tb.table
    /\ UNCHANGED <<allowed_list, blocked_list, conn, sib, test, send_budget>>

(***************************************************************************)
(* Access checks.                                                          *)
(***************************************************************************)
is_connection_allowed(host, port) ==
    is_testee_in_access_table(allowed_accesses, host, port)

is_connection_blocked(host, port) ==
    is_testee_in_access_table(blocked_accesses, host, port)

\* An accept loop without the default-deny of lines 68-72: a client that
\* matches no allow rule is dispatched.
Policy_NoDefaultDeny(host, port) ==
    LET blk == IF enable_blocked THEN is_connection_blocked(host, port)
               ELSE "False"
    IN  IF blk = "TypeError" THEN "TypeError"
        ELSE IF blk = "True" THEN "blocked"
        ELSE "dispatch"

\* What one pass of the accept loop does with an accepted client:
\* "blocked" and "not_allowed" close the socket and continue, "dispatch"
\* starts the thread, "TypeError" is the access check raising out of
\* listen().
Policy(host, port) ==
    LET blk == IF enable_blocked THEN is_connection_blocked(host, port)
               ELSE "False"
    IN  IF blk = "TypeError" THEN "TypeError"
        ELSE IF blk = "True" THEN "blocked"
        ELSE LET alw == IF enable_allowed
                        THEN is_connection_allowed(host, port) ELSE "True"
             IN  IF alw = "TypeError" THEN "TypeError"
                 ELSE IF alw = "False" THEN "not_allowed"
                 ELSE "dispatch"

\* A direct call of is_testee_in_access_table on the allow table.
TestAccess ==
    /\ srv = "listening"
    /\ ~test.called
    /\ \E host \in Addrs, port \in ClientPorts :
           test' = [called |-> TRUE, host |-> host, port |-> port,
                    result |-> is_testee_in_access_table(allowed_accesses,
                                                         host, port)]
    /\ UNCHANGED <<srv, config, conn, sib>>

(***************************************************************************)
(* The accept loop (listen).                                               *)
(***************************************************************************)
\* A rejection that forgets client_socket.close().
Reject_NoClose(c, verdict) == [c EXCEPT !.pc = verdict, !.src = "open"]

\* Lines 65-67 and 70-72: the rejected client's socket is closed and the
\* loop continues; no thread is started.
Reject(c, verdict) == [c EXCEPT !.pc = verdict, !.src = "closed"]

\* One pass of the while loop that accepts a client: cur is the record
\* of the accepted connection before the pass, nxt after it.
Accept(cur, nxt) ==
    \E host \in Addrs, port \in ClientPorts :
      LET verdict == Policy(host, port)
          c == [cur EXCEPT !.host = host, !.port = port]
      IN  CASE verdict = "TypeError" ->
                 /\ srv' = "raised"
                 /\ nxt = [c EXCEPT !.pc = "dropped", !.src = "open"]
            [] verdict \in {"blocked", "not_allowed"} ->
                 /\ srv' = srv
                 /\ nxt = Reject(c, verdict)
            [] verdict = "dispatch" ->
                 /\ srv' = srv
                 /\ nxt = [c EXCEPT !.pc = "recv", !.src = "open"]

\* The accept loop accepts a client.
Listen ==
    /\ srv = "listening"
    /\ listen_flag
    /\ conn.pc = "free"
    /\ Accept(conn, conn')
    /\ UNCHANGED <<config, test, sib>>

\* A connection whose thread has been started and has not ended.
InFlight(c) == c.pc \in {"recv", "resolved", "connected", "relay", "returned"}

\* What the end of the process does to a connection: the threads are
\* daemon threads (line 79), so a thread in flight ends where it is, and
\* the sockets it held go with the process.
Killed(c) ==
    IF InFlight(c)
    THEN [c EXCEPT !.pc = "killed",
                   !.src = "closed",
                   !.dest = IF @ = "open" THEN "closed" ELSE @]
    ELSE c

\* shutdown: the signal handler clears the flag and calls exit(0), which
\* ends the process and its daemon threads.
Shutdown ==
    /\ srv = "listening"
    /\ listen_flag' = FALSE
    /\ srv' = "exited"
    /\ conn' = Killed(conn)
    /\ sib' = Killed(sib)
    /\ UNCHANGED <<allowed_list, blocked_list, enable_allowed, enable_blocked,
                   allowed_accesses, blocked_accesses, test, send_budget>>

\* The threads run as long as the process does.
Running == srv \in {"listening", "raised"}

(***************************************************************************)
(* The connection thread (proxy_thread) up to the relay.                   *)
(***************************************************************************)
\* Lines 86-96 for a request that parses: the tunnel flag and the
\* destination.
Resolved(c, request) ==
    LET http_request == http_request_parse(request)
        dest == parse_dest_url(http_request.request_target)
    IN  [c EXCEPT !.pc = "resolved",
                  !.request = request,
                  !.tunnel = (http_request.method = "CONNECT"),
                  !.dest_domain = dest.host,
                  !.dest_port = dest.port]

\* An exception that leaves proxy_thread ends its thread (the thread is
\* the target of a threading.Thread, lines 74-80): the accept loop and
\* the object are as they were.
Uncaught_StopsServer(s) == "exited"

Uncaught(s) == s

\* The server after a step of the thread of connection nxt.
ServerAfter(s, nxt) == IF nxt.pc = "raised" THEN Uncaught(s) ELSE s

\* Lines 84-96 for the connection cur: the first recv, the parse and the
\* resolution.  The recv may time out and the parse may fail; both raise
\* out of the thread.
RecvAndResolve(cur, nxt) ==
    /\ cur.pc = "recv"
    /\ \/ nxt = [cur EXCEPT !.pc = "raised"]
       \/ \E request \in Requests :
            IF ~http_request_parse(request).ok
            THEN nxt = [cur EXCEPT !.pc = "raised", !.request = request]
            ELSE nxt = Resolved(cur, request)

ProxyThreadRecv ==
    /\ Running
    /\ RecvAndResolve(conn, conn')
    /\ srv' = ServerAfter(srv, conn')
    /\ UNCHANGED <<config, test, sib>>

\* Line 125: connect is called once, whether it fails or not.
ConnectAttempts(failed) == 1

\* get_dest_socket for the connection cur: connect raises on a host or
\* port of None, and may fail for any destination.
Connect(cur, nxt) ==
    /\ cur.pc = "resolved"
    /\ \/ nxt = [cur EXCEPT !.pc = "raised",
                            !.connects = @ + ConnectAttempts(TRUE)]
       \/ /\ cur.dest_domain # << >>
          /\ cur.dest_port # << >>
          /\ nxt = [cur EXCEPT !.pc = "connected", !.dest = "open",
                               !.connects = @ + ConnectAttempts(FALSE)]

GetDestSocket ==
    /\ Running
    /\ Connect(conn, conn')
    /\ srv' = ServerAfter(srv, conn')
    /\ UNCHANGED <<config, test, sib>>

\* A pipe that forwards the first request of a tunnel too.
FirstSend_AlwaysForward(is_https_tunnel, request) ==
    [to |-> "dest", data |-> request]

\* A pipe that acknowledges every request.
FirstSend_AlwaysAck(is_https_tunnel, request) ==
    [to |-> "src", data |-> Ack]

\* What pipe sends first, and on which socket (lines 130-134).
FirstSend(is_https_tunnel, request) ==
    IF is_https_tunnel THEN [to |-> "src", data |-> Ack]
    ELSE [to |-> "dest", data |-> request]

\* pipe for the connection cur, up to the call of pipe_data.  A sendall
\* that fails has written some shorter prefix and raises out of the
\* thread.
PipeFirst(cur, nxt) ==
    /\ cur.pc = "connected"
    /\ LET first == FirstSend(cur.tunnel, cur.request)
       IN  \E ok \in BOOLEAN, k \in 0..(Len(first.data) - 1) :
             LET written == IF ok THEN first.data ELSE SubSeq(first.data, 1, k)
                 pc2 == IF ok THEN "relay" ELSE "raised"
             IN  IF first.to = "src"
                 THEN nxt = [cur EXCEPT !.pc = pc2,
                                        !.src_out = @ \o written]
                 ELSE nxt = [cur EXCEPT !.pc = pc2,
                                        !.dest_out = @ \o written]

Pipe ==
    /\ Running
    /\ PipeFirst(conn, conn')
    /\ srv' = ServerAfter(srv, conn')
    /\ UNCHANGED <<config, test, sib>>

(***************************************************************************)
(* The relay loop (pipe_data).                                             *)
(***************************************************************************)
Min(a, b) == IF a < b THEN a ELSE b

\* The clock of read windows is only read up to this value.
WindowCap == 2 * max_pipe_timeout + 2

\* What one recv may do.  A leg that reached end of stream only returns
\* b"" or fails; a live one may also time out or return the next one or
\* two bytes its endpoint sent.
RecvOutcomes(leg, consumed) ==
    { [kind |-> "eof", n |-> 0], [kind |-> "error", n |-> 0] }
    \cup (IF leg = "live"
          THEN { [kind |-> "timeout", n |-> 0] }
               \cup { [kind |-> "data", n |-> n] :
                        n \in { m \in 1..2 : consumed + m <= send_budget } }
          ELSE { })

\* The bytes a recv returns: b"" unless it returned data (a recv that
\* raises socket.error leaves the b"" of lines 166-167).
Received(stream, consumed, r) ==
    IF r.kind = "data" THEN SubSeq(stream, consumed + 1, consumed + r.n)
    ELSE << >>

\* What one sendall(data) may write: all of data, or, raising
\* socket.error, a shorter prefix.
SendOutcomes(data) ==
    { [ok |-> TRUE, k |-> Len(data)] }
    \cup { [ok |-> FALSE, k |-> j] : j \in 0..(Len(data) - 1) }

Written(data, snd) == SubSeq(data, 1, snd.k)

LegAfter(leg, r) == IF r.kind = "eof" THEN "down" ELSE leg

\* Read windows spent since the last byte was read and passed on: a recv
\* that times out spends one, a recv that returns or fails at once spends
\* none.
WindowsAfter(w, r) ==
    IF r.kind = "data" THEN 0
    ELSE IF r.kind = "timeout" THEN Min(w + 1, WindowCap)
    ELSE w

\* The counter of a loop that counts every iteration in which one of the
\* two reads was empty.
NextCount_EitherEmpty(count, d_to_s_response_data, s_to_d_response_data) ==
    IF d_to_s_response_data = << >> \/ s_to_d_response_data = << >>
    THEN count + 1
    ELSE 0

\* Lines 181-186: the idle counter after an iteration.
NextCount(count, d_to_s_response_data, s_to_d_response_data) ==
    IF d_to_s_response_data = << >> /\ s_to_d_response_data = << >>
    THEN count + 1
    ELSE 0

\* The break of a loop that compares with > where the code has >=.
Breaks_OffByOne(count, d_to_s_response_data, s_to_d_response_data) ==
    /\ d_to_s_response_data = << >>
    /\ s_to_d_response_data = << >>
    /\ count + 1 > max_pipe_timeout

\* Lines 181-184: whether the iteration ends in the break.
Breaks(count, d_to_s_response_data, s_to_d_response_data) ==
    /\ d_to_s_response_data = << >>
    /\ s_to_d_response_data = << >>
    /\ NextCount(count, d_to_s_response_data, s_to_d_response_data)
         >= max_pipe_timeout

\* Lines 179-180: what is accumulated for the caller.
Accumulate(response_data, d_to_s_response_data) ==
    IF d_to_s_response_data # << >>
    THEN response_data \o d_to_s_response_data
    ELSE response_data

\* Lines 168-172: recv on dest, sendall on src.
DestToSrc(c, dr, ds) ==
    LET data == Received(DestBytes, c.d_n, dr)
    IN  [c EXCEPT !.d_n = @ + Len(data),
                  !.d_leg = LegAfter(@, dr),
                  !.src_out = @ \o Written(data, ds),
                  !.idle_windows = WindowsAfter(@, dr)]

\* Lines 173-177: recv on src, sendall on dest.
SrcToDest(c, sr, ss) ==
    LET data == Received(ClientBytes, c.s_n, sr)
    IN  [c EXCEPT !.s_n = @ + Len(data),
                  !.s_leg = LegAfter(@, sr),
                  !.dest_out = @ \o Written(data, ss),
                  !.idle_windows = WindowsAfter(@, sr)]

\* Lines 179-186: the end of an iteration.
EndOfIteration(c, d_to_s_response_data, s_to_d_response_data) ==
    LET done == Breaks(c.count, d_to_s_response_data, s_to_d_response_data)
    IN  [c EXCEPT !.response_data = Accumulate(@, d_to_s_response_data),
                  !.count = NextCount(@, d_to_s_response_data,
                                      s_to_d_response_data),
                  !.iter = IF done THEN "broke" ELSE "continued",
                  !.pc = IF done THEN "returned" ELSE "relay"]

\* A pipe_data whose outer handler catches socket.error only: any other
\* exception leaves pipe_data and the thread.
Aborted_Raises(c) == [c EXCEPT !.iter = "aborted", !.pc = "raised"]

\* A handler that returns what was accumulated before the exception.
Aborted_KeepsData(c) == [c EXCEPT !.iter = "aborted", !.pc = "returned"]

\* Lines 187-191: an exception that is no socket.error leaves the loop;
\* the handler empties response_data and pipe_data returns.
Aborted(c) ==
    [c EXCEPT !.response_data = << >>, !.iter = "aborted", !.pc = "returned"]

\* A loop in which a chunk whose sendall failed counts as not read.
Chunk_OnlyIfSent(data, snd) == IF snd.ok THEN data ELSE << >>

\* Lines 169-170 and 174-175: the chunk is assigned before sendall is
\* called, so the variable keeps it when sendall raises.
Chunk(data, snd) == data

\* One iteration of the while loop of pipe_data for the connection cur.
\* exc names the place where an exception other than socket.error is
\* raised (a MemoryError for the receive buffer or for the
\* concatenation), "none" when none is.
Iteration(cur, nxt) ==
    /\ cur.pc = "relay"
    /\ \E exc \in {"none", "dest_recv", "src_recv", "concat"} :
       \E dr \in RecvOutcomes(cur.d_leg, cur.d_n) :
       \E ds \in SendOutcomes(Received(DestBytes, cur.d_n, dr)) :
       \E sr \in RecvOutcomes(cur.s_leg, cur.s_n) :
       \E ss \in SendOutcomes(Received(ClientBytes, cur.s_n, sr)) :
         LET d_to_s == Chunk(Received(DestBytes, cur.d_n, dr), ds)
             s_to_d == Chunk(Received(ClientBytes, cur.s_n, sr), ss)
             c1 == DestToSrc(cur, dr, ds)
             c2 == SrcToDest(c1, sr, ss)
         IN  CASE exc = "dest_recv" -> nxt = Aborted(cur)
               [] exc = "src_recv" -> nxt = Aborted(c1)
               [] exc = "concat" -> /\ d_to_s # << >>
                                    /\ nxt = Aborted(c2)
               [] exc = "none" -> nxt = EndOfIteration(c2, d_to_s, s_to_d)

PipeData ==
    /\ Running
    /\ Iteration(conn, conn')
    /\ srv' = ServerAfter(srv, conn')
    /\ UNCHANGED <<config, test, sib>>

(***************************************************************************)
(* Teardown (proxy_thread, lines 101-121).                                 *)
(***************************************************************************)
\* Lines 101-121 for the connection cur.  The four steps in order:
\* shutdown and close of dest, shutdown and close of src.  Only
\* socket.timeout is caught; raised is the first step that raises another
\* error (0: none does), which leaves the thread.
Close(cur, nxt) ==
    /\ cur.pc = "returned"
    /\ \E raised \in 0..4 :
         nxt = [cur EXCEPT
                  !.pc = IF raised = 0 THEN "closed" ELSE "raised",
                  !.dest = IF raised \in {1, 2} THEN @ ELSE "closed",
                  !.src = IF raised = 0 THEN "closed" ELSE @]

Teardown ==
    /\ Running
    /\ Close(conn, conn')
    /\ srv' = ServerAfter(srv, conn')
    /\ UNCHANGED <<config, test, sib>>

\* The thread of the sibling connection: the same steps.
SiblingThread ==
    /\ Running
    /\ \/ RecvAndResolve(sib, sib')
       \/ Connect(sib, sib')
       \/ PipeFirst(sib, sib')
       \/ Iteration(sib, sib')
       \/ Close(sib, sib')
    /\ srv' = ServerAfter(srv, sib')
    /\ UNCHANGED <<config, test, conn>>

(***************************************************************************)
(* Specifications.                                                         *)
(***************************************************************************)
NoTest == [called |-> FALSE, host |-> 0, port |-> 1, result |-> "False"]

InitWith(configs, budget) ==
    /\ srv = "new"
    /\ \E cfg \in configs : allowed_list = cfg[1] /\ blocked_list = cfg[2]
    /\ send_budget = budget
    /\ listen_flag = TRUE
    /\ enable_allowed = FALSE
    /\ enable_blocked = FALSE
    /\ allowed_accesses = << >>
    /\ blocked_accesses = << >>
    /\ conn = NoConn
    /\ sib = NoConn
    /\ test = NoTest

\* The server: construction, the accept loop and one connection.
Init == InitWith(ServerConfigs, ServerSend)

Next ==
    \/ Construct
    \/ Listen
    \/ Shutdown
    \/ ProxyThreadRecv
    \/ GetDestSocket
    \/ Pipe
    \/ PipeData
    \/ Teardown

Spec == Init /\ [][Next]_vars

\* The access table alone: every access list as the allow list, and
\* direct calls of is_testee_in_access_table.
InitAccess == InitWith(AccessLists \X { << >> }, 0)

NextAccess == Construct \/ TestAccess

SpecAccess == InitAccess /\ [][NextAccess]_vars

\* The construction and the accept loop, for access lists that may hold
\* malformed rules.
InitConstruct == InitWith(ConstructLists \X ConstructLists, 0)

NextConstruct == Construct \/ Listen

SpecConstruct == InitConstruct /\ [][NextConstruct]_vars

\* The relay alone: a connection as pipe leaves it when it calls
\* pipe_data.
InitRelay ==
    /\ srv = "listening"
    /\ send_budget = MaxSend
    /\ allowed_list = << >>
    /\ blocked_list = << >>
    /\ listen_flag = TRUE
    /\ enable_allowed = FALSE
    /\ enable_blocked = FALSE
    /\ allowed_accesses = << >>
    /\ blocked_accesses = << >>
    /\ test = NoTest
    /\ sib = NoConn
    /\ \E request \in { r \in Requests : http_request_parse(r).ok } :
         LET c == Resolved([NoConn EXCEPT !.src = "open"], request)
             first == FirstSend(c.tunnel, request)
         IN  /\ c.dest_domain # << >>
             /\ c.dest_port # << >>
             /\ conn = [c EXCEPT
                          !.pc = "relay", !.dest = "open",
                          !.src_out = IF first.to = "src" THEN first.data ELSE << >>,
                          !.dest_out = IF first.to = "dest" THEN first.data ELSE << >>]

NextRelay == PipeData

SpecRelay == InitRelay /\ [][NextRelay]_vars

\* The thread that runs pipe_data is scheduled again and again, and every
\* socket call of an iteration returns within its timeout.
FairSpecRelay == SpecRelay /\ WF_vars(PipeData)

\* One connection thread alone, from its start by the accept loop of a
\* server without access lists (the thread only logs its client address).
InitThread ==
    /\ srv = "listening"
    /\ send_budget = MaxSend
    /\ allowed_list = << >>
    /\ blocked_list = << >>
    /\ listen_flag = TRUE
    /\ enable_allowed = FALSE
    /\ enable_blocked = FALSE
    /\ allowed_accesses = << >>
    /\ blocked_accesses = << >>
    /\ test = NoTest
    /\ sib = NoConn
    /\ conn = [NoConn EXCEPT !.pc = "recv", !.src = "open"]

NextThread ==
    \/ ProxyThreadRecv
    \/ GetDestSocket
    \/ Pipe
    \/ PipeData
    \/ Teardown

SpecThread == InitThread /\ [][NextThread]_vars

\* Two connections of a server without access lists, from the moment the
\* accept loop has started a thread for each.  Neither endpoint of either
\* connection sends more than its first request.
InitSiblings ==
    /\ srv = "listening"
    /\ send_budget = 0
    /\ allowed_list = << >>
    /\ blocked_list = << >>
    /\ listen_flag = TRUE
    /\ enable_allowed = FALSE
    /\ enable_blocked = FALSE
    /\ allowed_accesses = << >>
    /\ blocked_accesses = << >>
    /\ test = NoTest
    /\ conn = [NoConn EXCEPT !.pc = "recv", !.src = "open"]
    /\ sib = [NoConn EXCEPT !.pc = "recv", !.src = "open", !.port = 2]

NextSiblings ==
    \/ ProxyThreadRecv
    \/ GetDestSocket
    \/ Pipe
    \/ PipeData
    \/ Teardown
    \/ SiblingThread

SpecSiblings == InitSiblings /\ [][NextSiblings]_vars

(***************************************************************************)
(* Properties of the relay loop.                                           *)
(***************************************************************************)
\* A step of pipe_data that ran an iteration to its end (no exception
\* other than socket.error left the loop).
IterationStep ==
    /\ conn.pc = "relay"
    /\ conn' # conn
    /\ conn'.iter # "aborted"

\* Both reads of the iteration yielded zero bytes: neither endpoint's
\* stream was consumed.
BothReadsEmpty == conn'.d_n = conn.d_n /\ conn'.s_n = conn.s_n

\* C1: in every iteration of pipe_data the idle counter becomes count + 1
\* exactly when both reads yielded zero bytes and 0 when either yielded
\* bytes; the loop ends (through its break) exactly in the iteration in
\* which the counter reaches the threshold, which is 2, and never while
\* the counter is below it; an iteration in which one leg is empty and
\* the other yields bytes never ends the loop.
C1_IdleCounter ==
    [][IterationStep =>
         /\ max_pipe_timeout = 2
         /\ conn.count < max_pipe_timeout
         /\ conn'.count = (IF BothReadsEmpty THEN conn.count + 1 ELSE 0)
         /\ (conn'.pc = "returned") <=> (conn'.count = max_pipe_timeout)
         /\ (conn'.pc = "returned") => BothReadsEmpty
         /\ (conn'.pc # "returned") => conn'.pc = "relay"]_vars

\* The destination reached end of stream without ever sending, the
\* client's read of the same iteration yielded bytes, and the relay goes
\* on with the counter at zero.
C1_Witness ==
    /\ conn.pc = "relay"
    /\ conn.iter = "continued"
    /\ conn.count = 0
    /\ conn.d_leg = "down"
    /\ conn.d_n = 0
    /\ conn.s_n > 0
    /\ conn.idle_windows = 0
\* The relay of a connection whose endpoints send finitely many bytes
\* ends.
RelayEnds == (conn.pc = "relay") ~> (conn.pc = "returned")

\* C2 (as claimed): the relay of two endpoints that stop sending ends, and
\* no more than idle-threshold read-timeout windows pass between the
\* transfer of the last byte and the end of the relay.
C2_Original ==
    /\ RelayEnds
    /\ [](conn.idle_windows <= max_pipe_timeout)

\* C2 (amended): the relay of two endpoints that stop sending ends, and no
\* more than 2 * idle-threshold + 1 read-timeout windows pass between the
\* transfer of the last byte and the end of the relay: each of the
\* idle-threshold idle iterations waits for two reads, one per leg, and
\* the iteration that passed on the last byte of the destination still
\* waits for its read on the client.
C2_TerminatesWithinWindows ==
    /\ RelayEnds
    /\ [](conn.idle_windows <= 2 * max_pipe_timeout + 1)

\* Both endpoints sent all they had, the last byte came from the
\* destination, every later read timed out, and the relay ended by its
\* break after 2 * idle-threshold + 1 windows.
C2_Witness ==
    /\ conn.pc = "returned"
    /\ conn.iter = "broke"
    /\ conn.d_n = send_budget
    /\ conn.s_n = send_budget
    /\ conn.idle_windows = 2 * max_pipe_timeout + 1
(***************************************************************************)
(* Properties of the access tables and of the accept loop.                 *)
(***************************************************************************)
\* The addresses of a network.
NetworkAddrs(net) == net.addr .. (net.addr + Pow2(AddrBits - net.plen) - 1)

\* A rule of an access list covers a client: the client's IPv4 address
\* lies in the rule's network, and the rule's port is the wildcard or the
\* client's port.
RuleCovers(rule, host, port) ==
    /\ rule.net.ver = 4
    /\ host \in NetworkAddrs(rule.net)
    /\ \/ rule.port.kind = "str" /\ rule.port.s = Star
       \/ rule.port.kind = "int" /\ rule.port.n = port

ListCovers(list, host, port) ==
    \E k \in 1..Len(list) : RuleCovers(list[k], host, port)

\* The accept loop has accepted a client.
Accepted == conn.pc # "free"

\* A thread was started for the client.
Dispatched == conn.pc \notin {"free", "blocked", "not_allowed", "dropped"}

\* C3 (as claimed): a client that some rule of the enabled block list
\* covers is rejected by the accept loop, closed and not dispatched,
\* whether or not the allow list covers it too.
C3_BlockPrecedence ==
    (Accepted /\ enable_blocked
       /\ ListCovers(blocked_list, conn.host, conn.port))
    => (conn.pc = "blocked" /\ conn.src = "closed")

\* C3 holds of every block list whose rules are all IPv4 networks, the
\* allow list covering the client or not.
C3_BlockPrecedenceOneVersion ==
    (Accepted /\ enable_blocked
       /\ (\A k \in 1..Len(blocked_list) : blocked_list[k].net.ver = 4)
       /\ ListCovers(blocked_list, conn.host, conn.port))
    => (conn.pc = "blocked" /\ conn.src = "closed")

\* C4: with the allow list enabled, no thread is started for a client
\* that no allow rule covers; a thread is started only for a client that
\* no block rule covers and that, when the allow list is enabled, some
\* allow rule covers.
C4_DefaultDeny ==
    /\ (Accepted /\ enable_allowed
          /\ ~ListCovers(allowed_list, conn.host, conn.port))
       => ~Dispatched
    /\ Dispatched =>
         /\ ~(enable_blocked /\ ListCovers(blocked_list, conn.host, conn.port))
         /\ enable_allowed => ListCovers(allowed_list, conn.host, conn.port)

\* A client that no rule of the enabled allow list covers, and no block
\* rule either, was turned away.
C4_Witness ==
    /\ conn.pc = "not_allowed"
    /\ enable_allowed
    /\ ~ListCovers(allowed_list, conn.host, conn.port)
    /\ ~ListCovers(blocked_list, conn.host, conn.port)

\* C5 (as claimed): is_testee_in_access_table returns True for a host
\* and port exactly when some rule of the access list covers them.
C5_MatchIffCovered ==
    test.called =>
      ((test.result = "True")
         <=> ListCovers(allowed_list, test.host, test.port))

\* C5 holds of every access list whose rules are all IPv4 networks.
C5_MatchIffCoveredOneVersion ==
    (test.called /\ \A k \in 1..Len(allowed_list) : allowed_list[k].net.ver = 4)
    => ((test.result = "True")
          <=> ListCovers(allowed_list, test.host, test.port))

\* The accept loop turned the client away.
RejectedByPolicy == conn.pc \in {"blocked", "not_allowed"}

\* C6: a client the accept loop rejects is closed at once, and nothing
\* else ever happens to it: nothing is written to its socket, nothing is
\* read from it, no thread runs for it and no outbound socket is opened.
C6_SilentDrop ==
    [][/\ RejectedByPolicy' =>
            /\ conn'.src = "closed"
            /\ conn'.src_out = << >>
            /\ conn'.request = << >>
            /\ conn'.s_n = 0
            /\ conn'.dest = "none"
            /\ conn'.dest_out = << >>
       /\ RejectedByPolicy => conn' = conn]_vars

\* A client that both lists cover was rejected as blocked.
C6_Witness ==
    /\ conn.pc = "blocked"
    /\ conn.src = "closed"
    /\ ListCovers(allowed_list, conn.host, conn.port)
    /\ ListCovers(blocked_list, conn.host, conn.port)
(***************************************************************************)
(* Properties of the connection thread.                                    *)
(***************************************************************************)
Range(seq) == { seq[i] : i \in 1..Len(seq) }

\* pipe has called pipe_data.
RelayEntered == conn.pc = "relay" \/ conn.iter # "none"

\* The bytes of the two endpoints that the relay has read so far.
ClientBytesRead == SubSeq(ClientBytes, 1, conn.s_n)
DestBytesRead == SubSeq(DestBytes, 1, conn.d_n)

IsConnect(request) == request # << >> /\ Head(request) = "CONNECT"

\* C7: for a CONNECT request, what the proxy writes to the inbound socket
\* starts with the acknowledgement line; the line is complete before the
\* relay loop starts and is written once, everything after it being bytes
\* read from the destination; nothing of the request reaches the
\* destination, which gets only bytes the relay read from the client.
C7_ConnectAck ==
    IsConnect(conn.request) =>
      /\ IsPrefix(conn.src_out, Ack) \/ IsPrefix(Ack, conn.src_out)
      /\ RelayEntered => IsPrefix(Ack, conn.src_out)
      /\ ~RelayEntered => conn.dest_out = << >>
      /\ IsPrefix(Ack, conn.src_out) =>
           Range(SubSeq(conn.src_out, Len(Ack) + 1, Len(conn.src_out)))
             \subseteq Range(DestBytesRead)
      /\ Range(conn.dest_out) \subseteq Range(ClientBytesRead)

\* A tunnel was acknowledged and then relayed bytes both ways.
C7_Witness ==
    /\ IsConnect(conn.request)
    /\ conn.pc = "returned"
    /\ conn.src_out = Ack \o DestBytesRead
    /\ conn.dest_out = ClientBytesRead
    /\ conn.d_n > 0
    /\ conn.s_n > 0

\* C8: for a request with another method, what the proxy writes to the
\* outbound socket starts with the bytes of the first request as they
\* were received; they are complete before the relay loop starts and are
\* written once, everything after them being bytes read from the client;
\* no acknowledgement is written to the inbound socket, which gets only
\* bytes the relay read from the destination.
C8_ForwardRequest ==
    (conn.request # << >> /\ ~IsConnect(conn.request)) =>
      /\ IsPrefix(conn.dest_out, conn.request)
           \/ IsPrefix(conn.request, conn.dest_out)
      /\ RelayEntered => IsPrefix(conn.request, conn.dest_out)
      /\ ~RelayEntered => conn.src_out = << >>
      /\ IsPrefix(conn.request, conn.dest_out) =>
           Range(SubSeq(conn.dest_out, Len(conn.request) + 1,
                        Len(conn.dest_out)))
             \subseteq Range(ClientBytesRead)
      /\ Range(conn.src_out) \subseteq Range(DestBytesRead)

\* A GET was forwarded and then bytes were relayed both ways.
C8_Witness ==
    /\ conn.request # << >>
    /\ Head(conn.request) = "GET"
    /\ conn.pc = "returned"
    /\ conn.dest_out = conn.request \o ClientBytesRead
    /\ conn.src_out = DestBytesRead
    /\ conn.d_n > 0
    /\ conn.s_n > 0
(***************************************************************************)
(* Properties of what the relay delivers and of how it returns.            *)
(***************************************************************************)
\* What the relay itself wrote to each socket: all but the first send of
\* pipe.
RelayedToSrc ==
    IF conn.tunnel
    THEN SubSeq(conn.src_out, Len(Ack) + 1, Len(conn.src_out))
    ELSE conn.src_out

RelayedToDest ==
    IF conn.tunnel
    THEN conn.dest_out
    ELSE SubSeq(conn.dest_out, Len(conn.request) + 1, Len(conn.dest_out))

\* C9 (as claimed): at every moment of the relay, and so when it ends
\* after both endpoints stopped sending, what the relay wrote to each
\* socket is exactly the bytes it read from the other one, in order.
C9_RelayFidelity ==
    RelayEntered =>
      /\ RelayedToSrc = DestBytesRead
      /\ RelayedToDest = ClientBytesRead

\* s is t with some elements left out.
RECURSIVE IsSubsequence(_, _)
IsSubsequence(s, t) ==
    IF s = << >> THEN TRUE
    ELSE IF t = << >> THEN FALSE
    ELSE IF Head(s) = Head(t) THEN IsSubsequence(Tail(s), Tail(t))
    ELSE IsSubsequence(s, Tail(t))

\* What is left of C9 when a sendall fails: the relay writes nothing it
\* did not read, nothing twice and nothing out of order.
C9_NothingInvented ==
    RelayEntered =>
      /\ IsSubsequence(RelayedToSrc, DestBytesRead)
      /\ IsSubsequence(RelayedToDest, ClientBytesRead)

\* C10: pipe_data never raises: every iteration either goes on with the
\* loop or returns to pipe, also when an exception other than
\* socket.error was raised in it.
C10_NeverRaises ==
    [][conn.pc = "relay" =>
         /\ conn'.pc \in {"relay", "returned"}
         /\ conn'.iter = "aborted" => conn'.pc = "returned"]_vars

\* A sendall to the client failed, so part of what was read from the
\* destination was not delivered, a later iteration raised an exception
\* that is no socket.error, and pipe_data returned.
C10_Witness ==
    /\ conn.pc = "returned"
    /\ conn.iter = "aborted"
    /\ conn.d_n > 0
    /\ Len(RelayedToSrc) < conn.d_n

(***************************************************************************)
(* Properties of the connections of one server.                            *)
(***************************************************************************)
\* C11: whatever happens in the thread of one connection, an exception
\* that leaves it included (recv timeout, parse error, unresolved
\* destination, connect error, sendall error in pipe, error in the
\* teardown), the accept loop stays in its loop with its flag set, a step
\* of one thread changes nothing of the other connection, and the other
\* thread, while it has not ended, can take its next step.
C11_ErrorIsolation ==
    /\ [](srv = "listening" /\ listen_flag)
    /\ [](InFlight(sib) => ENABLED SiblingThread)
    /\ [][/\ conn' # conn => sib' = sib
          /\ sib' # sib => conn' = conn]_vars

\* The thread of the first connection ended in an exception of its
\* teardown, after its relay had ended by the break; the sibling went
\* through its relay and was torn down.
C11_Witness ==
    /\ conn.pc = "raised"
    /\ conn.iter = "broke"
    /\ sib.pc = "closed"
    /\ sib.iter = "broke"
    /\ srv = "listening"

(***************************************************************************)
(* Properties of the steps of a connection.                                *)
(***************************************************************************)
\* get_dest_socket was called for the connection and raised: connect
\* failed, or the host or the port it was given was None.
ConnectFailed(c) == c.pc = "raised" /\ c.connects > 0 /\ c.dest = "none"

\* The request-target of the first request of the connection, once it
\* was received and parsed.
Target(c) == SubSeq(c.request, 2, Len(c.request) - 1)

Parsed(c) == Len(c.request) >= 3

\* The target is an absolute URL of the given scheme.
AbsoluteUrl(target, scheme) ==
    Len(target) >= 3 /\ target[1] = scheme /\ target[2] = "://"

\* The target names no port.
NoPortIn(target) == \A i \in 1..Len(target) : target[i] # ":"

\* C16: the authority example.com:443, which has no scheme, resolves to
\* the host example.com and the port 443; an absolute http URL that names
\* no port resolves to its host and the port 80; every other target that
\* names no port resolves to no port; and a connection whose port
\* resolved to none ends in an exception of get_dest_socket with no
\* outbound socket connected and nothing written to either socket.
C16_Resolution ==
    Parsed(conn) =>
      /\ Target(conn) = <<"example.com", ":", "443">>
           => (conn.dest_domain = <<"example.com">> /\ conn.dest_port = <<443>>)
      /\ (AbsoluteUrl(Target(conn), "http") /\ NoPortIn(Target(conn)))
           => (conn.dest_domain = <<Target(conn)[3]>> /\ conn.dest_port = <<80>>)
      /\ (~AbsoluteUrl(Target(conn), "http") /\ NoPortIn(Target(conn)))
           => conn.dest_port = << >>
      /\ conn.dest_port = << >> =>
           /\ conn.pc \in {"resolved", "raised"}
           /\ conn.pc = "raised" => conn.connects = 1
           /\ conn.dest = "none"
           /\ conn.dest_out = << >>
           /\ conn.src_out = << >>

\* An absolute https URL that names no port resolved to no port, and the
\* thread ended in the exception of its connect.
C16_Witness ==
    /\ Parsed(conn)
    /\ AbsoluteUrl(Target(conn), "https")
    /\ NoPortIn(Target(conn))
    /\ conn.dest_domain = <<"example.com">>
    /\ conn.dest_port = << >>
    /\ ConnectFailed(conn)

\* C12 (as claimed): when opening the outbound connection fails, the
\* inbound socket is closed, nothing was written to the client, the relay
\* was not entered and connect was called exactly once.
C12_ConnectFailureCloses ==
    ConnectFailed(conn) =>
      /\ conn.src = "closed"
      /\ conn.src_out = << >>
      /\ ~RelayEntered
      /\ conn.connects = 1

\* What holds of C12: after a failed connect nothing was written to
\* either socket, the relay was not entered, connect was called once and
\* the thread has ended; the inbound socket is as it was.
C12_ConnectFailureAbandons ==
    [][ConnectFailed(conn) =>
         /\ conn.src_out = << >>
         /\ conn.dest_out = << >>
         /\ ~RelayEntered
         /\ conn.connects = 1
         /\ conn.src = "open"
         /\ conn' = conn]_vars

\* The teardown of the connection has been run: the relay had returned,
\* and the thread has ended since.
TornDown(c) == c.iter \in {"broke", "aborted"} /\ c.pc \in {"closed", "raised"}

\* C13 (as claimed): once the relay has returned, the teardown closes
\* both sockets and no error of one of its steps leaves it.
C13_TeardownClosesBoth ==
    TornDown(conn) =>
      /\ conn.pc = "closed"
      /\ conn.dest = "closed"
      /\ conn.src = "closed"

\* What holds of C13: a teardown in which no step raises anything but
\* socket.timeout closes both sockets, and the outbound socket is closed
\* whenever its own two steps did not raise.
C13_TeardownClosesUnlessRaised ==
    TornDown(conn) =>
      /\ conn.pc = "closed" => (conn.dest = "closed" /\ conn.src = "closed")
      /\ conn.pc = "raised" => conn.src = "open"

(***************************************************************************)
(* Properties of the shutdown.                                             *)
(***************************************************************************)
\* C14 (as claimed): once the shutdown signal has cleared the flag the
\* accept loop accepts no further connection, and a connection whose
\* thread is in flight is not cancelled: its thread is never ended from
\* outside, by the shutdown or otherwise.
C14_ShutdownDrains ==
    [][/\ (~listen_flag /\ conn.pc = "free") => conn'.pc = "free"
       /\ InFlight(conn) => conn'.pc # "killed"]_vars

\* What holds of C14: after the shutdown no connection is accepted and
\* nothing is dispatched, and no thread takes a step.
C14_NoAcceptAfterShutdown ==
    [][~listen_flag => conn' = conn]_vars

(***************************************************************************)
(* Properties of the construction.                                         *)
(***************************************************************************)
MalformedNetwork(rule) == HasHostBits(rule.net)

\* The port spec is neither an integer nor the wildcard.
MalformedPort(rule) == rule.port.kind = "str" /\ rule.port.s # Star

HasMalformedNetwork(list) ==
    \E k \in 1..Len(list) : MalformedNetwork(list[k])

Malformed(list) ==
    \E k \in 1..Len(list) : MalformedNetwork(list[k]) \/ MalformedPort(list[k])

\* C15 (as claimed): the construction of a server with an access list
\* that holds a malformed network spec or a malformed port spec fails
\* before the socket listens, and no connection is ever accepted.
C15_MalformedFailsFast ==
    (srv # "new" /\ (Malformed(allowed_list) \/ Malformed(blocked_list)))
    => (srv = "config_error" /\ conn.pc = "free")

\* What holds of C15: a malformed network spec in either list makes the
\* construction fail, and no connection is ever accepted.
C15_MalformedNetworkFailsFast ==
    (srv # "new"
       /\ (HasMalformedNetwork(allowed_list) \/ HasMalformedNetwork(blocked_list)))
    => (srv = "config_error" /\ conn.pc = "free")

(***************************************************************************)
(* Properties of a relay whose sends fail.                                 *)
(***************************************************************************)
\* A sendall of the direction has failed: the relay read more bytes from
\* one socket than it wrote to the other.
DestToSrcFailed == Len(RelayedToSrc) < conn.d_n
SrcToDestFailed == Len(RelayedToDest) < conn.s_n

\* C17 (as claimed): once a direction of the relay has met a failure of
\* its transport, it yields no bytes in any later iteration, and the loop
\* goes on and ends only by the idle counter reaching its threshold.
C17_FailedDirectionStaysEmpty ==
    [][IterationStep =>
         /\ DestToSrcFailed => conn'.d_n = conn.d_n
         /\ SrcToDestFailed => conn'.s_n = conn.s_n
         /\ conn'.pc = "returned" => conn'.count = max_pipe_timeout]_vars

\* C20: an iteration of pipe_data that read a chunk from either socket
\* sets the idle counter to zero and goes on with the loop, and appends
\* the chunk to the returned data when it came from the outbound socket,
\* whether the sendall of the chunk to the other socket succeeded, wrote
\* a part of it or wrote nothing: the relay does not end by its break in
\* an iteration in which a peer sent data.
C20_ReadCountsAsTransfer ==
    [][IterationStep =>
         /\ (conn'.d_n > conn.d_n \/ conn'.s_n > conn.s_n) =>
              /\ conn'.count = 0
              /\ conn'.pc = "relay"
         /\ conn'.d_n > conn.d_n =>
              conn'.response_data =
                conn.response_data \o SubSeq(DestBytes, conn.d_n + 1, conn'.d_n)
         /\ conn'.d_n = conn.d_n => conn'.response_data = conn.response_data]_vars

\* Both endpoints sent all they had, every sendall of the relay failed
\* without writing a byte, and the relay goes on with its counter at
\* zero and all the bytes of the destination in the data to return.
C20_Witness ==
    /\ conn.pc = "relay"
    /\ conn.iter = "continued"
    /\ conn.d_n = MaxSend
    /\ conn.s_n = MaxSend
    /\ RelayedToSrc = << >>
    /\ RelayedToDest = << >>
    /\ conn.count = 0
    /\ conn.response_data = SubSeq(DestBytes, 1, MaxSend)

(***************************************************************************)
(* Properties of what pipe_data returns.                                   *)
(***************************************************************************)
\* C18: when pipe_data returns through the break of its loop it returns
\* the bytes it read from the outbound socket, all of them and in the
\* order read, and no byte read from the inbound socket; when an
\* exception that is no socket.error left the loop it returns b"".
C18_ReturnValue ==
    /\ (conn.pc = "returned" /\ conn.iter = "broke") =>
          /\ conn.response_data = DestBytesRead
          /\ Range(conn.response_data) \cap Range(ClientBytes) = { }
    /\ (conn.pc = "returned" /\ conn.iter = "aborted") =>
          conn.response_data = << >>
    /\ conn.pc = "relay" => conn.response_data = DestBytesRead

\* Bytes were read from the outbound socket, and then an exception that
\* is no socket.error left the loop: pipe_data returned b"".
C18_Witness ==
    /\ conn.pc = "returned"
    /\ conn.iter = "aborted"
    /\ conn.d_n = MaxSend
    /\ conn.s_n > 0
    /\ conn.response_data = << >>

\* Both endpoints sent all they had and the relay ended by its break:
\* pipe_data returned what the destination sent.
C18_WitnessBreak ==
    /\ conn.pc = "returned"
    /\ conn.iter = "broke"
    /\ conn.d_n = MaxSend
    /\ conn.s_n = MaxSend
    /\ conn.response_data = SubSeq(DestBytes, 1, MaxSend)

(***************************************************************************)
(* Properties of the order of the steps of a connection.                   *)
(***************************************************************************)
\* Nothing more will be done for the connection by the accept loop or by
\* a thread of the server.
Over(c) ==
    c.pc \in {"blocked", "not_allowed", "dropped", "raised", "closed"}

\* The order of the steps, read off the record: bytes are read from the
\* inbound socket only for a dispatched connection; connect is called
\* only with the request parsed and the destination resolved from it;
\* bytes are written, and the relay entered, only with the outbound
\* socket connected.
StepsInOrder(c) ==
    /\ (c.request # << >> \/ c.s_n > 0) =>
         c.pc \notin {"free", "blocked", "not_allowed", "dropped"}
    /\ c.connects > 0 =>
         /\ Parsed(c)
         /\ c.connects = 1
         /\ c.dest_domain = parse_dest_url(Target(c)).host
         /\ c.dest_port = parse_dest_url(Target(c)).port
    /\ c.dest # "none" => c.connects = 1
    /\ (c.src_out # << >> \/ c.dest_out # << >>) => c.dest # "none"
    /\ (c.pc = "relay" \/ c.iter # "none") =>
         /\ c.dest # "none"
         /\ IF c.tunnel THEN IsPrefix(Ack, c.src_out)
            ELSE IsPrefix(c.request, c.dest_out)
    /\ c.pc = "closed" => c.iter \in {"broke", "aborted"}

\* C19 (as claimed): a connection goes through its steps in their order
\* and, whatever its path, ends closed: once nothing more is done for it,
\* its inbound socket is closed and its outbound socket, if one was
\* created, is closed too.
C19_OrderedAndClosed ==
    /\ StepsInOrder(conn)
    /\ Over(conn) => (conn.src = "closed" /\ conn.dest \in {"none", "closed"})

\* What holds of C19: the order of the steps; and the connections that
\* end closed are those the accept loop rejected and those whose thread
\* ran to the end of its teardown.
C19_Ordered ==
    /\ StepsInOrder(conn)
    /\ conn.pc \in {"blocked", "not_allowed", "closed"} =>
         (conn.src = "closed" /\ conn.dest \in {"none", "closed"})
    /\ conn.pc \in {"dropped", "raised"} => conn.src = "open"

====
